---- MODULE Spec2Model ----
(***************************************************************************)
(* Route playback core of gps-tracker-backend: time anchoring, segment     *)
(* location, linear / road-path interpolation and the simulate_position    *)
(* service, with the calculate-position handler that calls it.             *)
(*                                                                         *)
(* Numbers.  Python floats are modelled as exact rationals <<n, d>> in     *)
(* lowest terms with d > 0.  The trigonometric functions of geo_math are   *)
(* tabulated on the coordinate grid the model draws its inputs from        *)
(* (values of the source formulas, distances to the tenth of a kilometre,     *)
(* bearings to the thousandth of a degree).                                *)
(*                                                                         *)
(* Time.  A datetime is [day, tod, tz]: day counts days from 2024-01-01,   *)
(* tod is the time of day (hour, minute, second, microsecond taken         *)
(* together) in ticks of one hour, tz is the tzinfo: None (naive) or the    *)
(* UTC offset <<ticks>>.                                                   *)
(***************************************************************************)
EXTENDS Integers, Sequences, FiniteSets, TLC

VARIABLES gmaps_clients, op, args, result, args2, result2

vars == <<gmaps_clients, op, args, result, args2, result2>>

(* Python None; also every other empty (falsy) value: "", [] *)
None == <<>>

----------------------------------------------------------------------------
(* Bounds of the model                                                     *)

MaxWps == 3
MaxTod == 3
MaxPath == 2
MaxDow == 7
MaxWeeks == 1
MaxReqWps == 2
MaxRoadWps == 2
MaxSegWps == 3
MaxSegTod == 4
MaxBearingTenths == 3600
MaxRouteWps == 3
MaxRouteTod == 3
MaxSpeeds == 4
MaxPathPts == 3

----------------------------------------------------------------------------
(* Exact arithmetic standing for Python float arithmetic                   *)

Abs(i) == IF i < 0 THEN -i ELSE i

RECURSIVE Gcd(_, _)
Gcd(a, b) == IF b = 0 THEN a ELSE Gcd(b, a % b)

Norm(n, d) ==
    LET s == IF d < 0 THEN -1 ELSE 1
        g == Gcd(Abs(n), Abs(d))
    IN  <<(s * n) \div g, (s * d) \div g>>

R(i) == <<i, 1>>
Zero == R(0)
One == R(1)

RAdd(x, y) == Norm(x[1] * y[2] + y[1] * x[2], x[2] * y[2])
RSub(x, y) == Norm(x[1] * y[2] - y[1] * x[2], x[2] * y[2])
RMul(x, y) == Norm(x[1] * y[1], x[2] * y[2])
RDiv(x, y) == Norm(x[1] * y[2], x[2] * y[1])
RLe(x, y) == x[1] * y[2] <= y[1] * x[2]
RLt(x, y) == x[1] * y[2] < y[1] * x[2]
RMax(x, y) == IF RLt(x, y) THEN y ELSE x
RMin(x, y) == IF RLt(y, x) THEN y ELSE x

RECURSIVE Pow10(_)
Pow10(k) == IF k = 0 THEN 1 ELSE 10 * Pow10(k - 1)

(* round(x, nd): to the nearest multiple of 10^-nd, ties to even *)
Round(x, nd) ==
    LET p == Pow10(nd)
        g == Gcd(p, x[2])
        n == x[1] * (p \div g)
        d == x[2] \div g
        f == n \div d
        r2 == 2 * (n - f * d)
        q == IF r2 > d THEN f + 1
             ELSE IF r2 < d THEN f
             ELSE IF f % 2 = 0 THEN f ELSE f + 1
    IN  Norm(q, p)

(* int(x): truncation toward zero *)
Trunc(x) == IF x[1] >= 0 THEN x[1] \div x[2] ELSE -((-x[1]) \div x[2])

----------------------------------------------------------------------------
(* datetime values                                                         *)

TicksPerDay == 24
SecondsPerTick == 3600
Naive == None
Tz(offset) == <<offset>>
Utc == Tz(0)

Dt(day, tod, tz) == [day |-> day, tod |-> tod, tz |-> tz]

IsAware(t) == t.tz # Naive

(* position of t on the time line its comparisons and differences use:
   the wall clock for a naive datetime, UTC for an aware one *)
Instant(t) ==
    t.day * TicksPerDay + t.tod - (IF IsAware(t) THEN t.tz[1] ELSE 0)

(* datetime comparison and subtraction raise TypeError when exactly one
   operand is aware *)
Comparable(t1, t2) == IsAware(t1) = IsAware(t2)

(* mutant: the difference is taken the other way round *)
total_seconds_reversed(t2, t1) == (Instant(t1) - Instant(t2)) * SecondsPerTick

total_seconds(t2, t1) == (Instant(t2) - Instant(t1)) * SecondsPerTick

----------------------------------------------------------------------------
(* utils/geo_math.py, on the grid of points A = (0,0), B = (1,1),          *)
(* C = (0,1), D = (1,0)                                                    *)

Pt(lat, lon) == [latitude |-> R(lat), longitude |-> R(lon)]
PtA == Pt(0, 0)
PtB == Pt(1, 1)
PtC == Pt(0, 1)
PtD == Pt(1, 0)

haversine_distance_km(lat1, lon1, lat2, lon2) ==
    IF lat1 = lat2 /\ lon1 = lon2 THEN Zero
    ELSE IF lat1 # lat2 /\ lon1 # lon2 THEN Norm(1572, 10)
    ELSE Norm(1112, 10)

calculate_bearing(lat1, lon1, lat2, lon2) ==
    LET dlat == RSub(lat2, lat1)
        dlon == RSub(lon2, lon1)
    IN  IF dlat = Zero /\ dlon = Zero THEN Zero
        ELSE IF dlon = Zero THEN (IF RLt(Zero, dlat) THEN Zero ELSE R(180))
        ELSE IF dlat = Zero THEN (IF RLt(Zero, dlon) THEN R(90) ELSE R(270))
        ELSE IF RLt(Zero, dlat) /\ RLt(Zero, dlon) THEN Norm(44996, 1000)
        ELSE IF RLt(dlat, Zero) /\ RLt(dlon, Zero) THEN Norm(225004, 1000)
        ELSE IF RLt(Zero, dlat) THEN Norm(315004, 1000)
        ELSE Norm(134996, 1000)

(* mutant: a non-positive time yields the distance instead of 0.0 *)
calculate_speed_kmh_nonzero(distance_km, hours) ==
    IF RLe(hours, Zero) THEN distance_km ELSE RDiv(distance_km, hours)

calculate_speed_kmh(distance_km, hours) ==
    IF RLe(hours, Zero) THEN Zero ELSE RDiv(distance_km, hours)

dirs == <<"N", "NE", "E", "SE", "S", "SW", "W", "NW">>

(* x // y for y > 0: the floor of the quotient *)
FloorDiv(x, y) == LET q == RDiv(x, y) IN q[1] \div q[2]

(* mutant: the buckets start at the multiples of 45 degrees *)
heading_from_bearing_uncentered(bearing) ==
    LET idx == FloorDiv(bearing, R(45)) % 8
    IN  dirs[idx + 1]

heading_from_bearing(bearing) ==
    LET idx == FloorDiv(RAdd(bearing, Norm(225, 10)), R(45)) % 8
    IN  dirs[idx + 1]

----------------------------------------------------------------------------
(* services/interpolation_service.py                                       *)

(* mutant: a completed segment yields the start value *)
linear_interpolation_start(value1, value2, progress) ==
    IF RLe(progress, Zero) THEN value1
    ELSE IF RLe(One, progress) THEN value1
    ELSE RAdd(value1, RMul(RSub(value2, value1), progress))

linear_interpolation(value1, value2, progress) ==
    IF RLe(progress, Zero) THEN value1
    ELSE IF RLe(One, progress) THEN value2
    ELSE RAdd(value1, RMul(RSub(value2, value1), progress))

----------------------------------------------------------------------------
(* services/position_simulator.py                                          *)

(* A waypoint is the dict built from WaypointInput:
   [sequence, timestamp, latitude, longitude, is_parking];
   timestamp is a datetime or None. *)

Raise(e) == [raised |-> e]
Raised(r) == "raised" \in DOMAIN r

(* the list's timestamps and the query can all be compared with each other *)
AllComparable(ts) == \A a \in ts : \A b \in ts : Comparable(a, b)

(* mutant: equal timestamps end up in reverse input order *)
RECURSIVE InsertByTimestamp_unstable(_, _)
InsertByTimestamp_unstable(w, s) ==
    IF s = <<>> THEN <<w>>
    ELSE IF Instant(s[Len(s)].timestamp) < Instant(w.timestamp) THEN Append(s, w)
    ELSE Append(InsertByTimestamp_unstable(w, SubSeq(s, 1, Len(s) - 1)), s[Len(s)])

(* mutant: a waypoint is put at the end, whatever its timestamp *)
InsertByTimestamp_append(w, s) == Append(s, w)

(* sorted(waypoints, key=timestamp): stable, ascending *)
RECURSIVE InsertByTimestamp(_, _)
InsertByTimestamp(w, s) ==
    IF s = <<>> THEN <<w>>
    ELSE IF Instant(s[Len(s)].timestamp) <= Instant(w.timestamp) THEN Append(s, w)
    ELSE Append(InsertByTimestamp(w, SubSeq(s, 1, Len(s) - 1)), s[Len(s)])

(* mutant: the list is taken in input order *)
SortedByTimestamp_unsorted(wps) == wps

RECURSIVE SortedByTimestamp(_)
SortedByTimestamp(wps) ==
    IF wps = <<>> THEN <<>>
    ELSE InsertByTimestamp(wps[Len(wps)], SortedByTimestamp(SubSeq(wps, 1, Len(wps) - 1)))

(* progress of current_time between t1 and t2, line 30-32 *)
segment_progress(t1, t2, current_time) ==
    LET total == total_seconds(t2, t1)
        elapsed == total_seconds(current_time, t1)
    IN  IF total <= 0 THEN Zero
        ELSE RMax(Zero, RMin(One, Norm(elapsed, total)))

(* mutant: the pair's end is excluded *)
Brackets_half_open(w1, w2, current_time) ==
    /\ Instant(w1.timestamp) <= Instant(current_time)
    /\ Instant(current_time) < Instant(w2.timestamp)

Brackets(w1, w2, current_time) ==
    /\ Instant(w1.timestamp) <= Instant(current_time)
    /\ Instant(current_time) <= Instant(w2.timestamp)

(* mutant: the last bracketing pair is returned *)
_find_current_segment_last(waypoints, current_time) ==
    LET sorted_wps == SortedByTimestamp(waypoints)
        hits == {i \in 1..(Len(sorted_wps) - 1) :
                    Brackets(sorted_wps[i], sorted_wps[i + 1], current_time)}
    IN  IF hits = {} THEN None
        ELSE LET i == CHOOSE k \in hits : \A j \in hits : k >= j
                 w1 == sorted_wps[i]
                 w2 == sorted_wps[i + 1]
             IN  [idx |-> i - 1, w1 |-> w1, w2 |-> w2,
                  progress |-> segment_progress(w1.timestamp, w2.timestamp, current_time)]

(* (index, from_wp, to_wp, progress) of the first bracketing pair, or None *)
_find_current_segment(waypoints, current_time) ==
    LET sorted_wps == SortedByTimestamp(waypoints)
        hits == {i \in 1..(Len(sorted_wps) - 1) :
                    Brackets(sorted_wps[i], sorted_wps[i + 1], current_time)}
    IN  IF hits = {} THEN None
        ELSE LET i == CHOOSE k \in hits : \A j \in hits : k <= j
                 w1 == sorted_wps[i]
                 w2 == sorted_wps[i + 1]
             IN  [idx |-> i - 1, w1 |-> w1, w2 |-> w2,
                  progress |-> segment_progress(w1.timestamp, w2.timestamp, current_time)]

_interpolate_position(w1, w2, progress) ==
    [latitude |-> linear_interpolation(w1.latitude, w2.latitude, progress),
     longitude |-> linear_interpolation(w1.longitude, w2.longitude, progress)]

(* What the directions provider does for one call:
     [kind |-> "client_error"]  googlemaps.Client(key) raises
     [kind |-> "error", steps |-> points decoded before]
                                client.directions or decode_polyline raises
     [kind |-> "empty"]         the response is empty
     [kind |-> "route", steps |-> points of all step polylines, decoded,
                        overview |-> points of the overview polyline, decoded] *)
(* mutant: the points decoded before an exception are returned *)
_road_path_partial(w1, w2, api_key, outcome) ==
    IF api_key = None THEN None
    ELSE IF outcome.kind = "client_error" THEN None
    ELSE IF outcome.kind = "error" THEN outcome.steps
    ELSE IF outcome.kind = "empty" THEN None
    ELSE LET path_points == outcome.steps
         IN  IF path_points = <<>>
             THEN (IF outcome.overview = <<>> THEN None ELSE outcome.overview)
             ELSE path_points

_road_path(w1, w2, api_key, outcome) ==
    IF api_key = None THEN None
    ELSE IF outcome.kind \in {"client_error", "error"} THEN None
    ELSE IF outcome.kind = "empty" THEN None
    ELSE LET path_points == outcome.steps
         IN  IF path_points = <<>>
             THEN (IF outcome.overview = <<>> THEN None ELSE outcome.overview)
             ELSE path_points

(* the cache of clients after _road_path(.., api_key) with that outcome *)
_get_gmaps_client(clients, api_key, outcome) ==
    IF api_key = None THEN clients
    ELSE IF outcome.kind = "client_error" THEN clients
    ELSE clients \cup {api_key}

PointDistance(p, q) ==
    haversine_distance_km(p.latitude, p.longitude, q.latitude, q.longitude)

RECURSIVE PathTotal(_, _)
PathTotal(path, i) ==
    IF i > Len(path) THEN Zero
    ELSE RAdd(PointDistance(path[i - 1], path[i]), PathTotal(path, i + 1))

(* the walk of lines 103-115 from edge i on, `traveled` km behind it *)
RECURSIVE WalkPath(_, _, _, _, _, _)
WalkPath(path, i, traveled, current_position, target_distance, total_distance) ==
    IF i > Len(path)
    THEN [pos |-> current_position, distance_km |-> total_distance,
          distance_completed_km |-> total_distance]
    ELSE LET start == path[i - 1]
             end == path[i]
             dist == PointDistance(start, end)
         IN  IF RLe(dist, Zero)
             THEN WalkPath(path, i + 1, traveled, end, target_distance, total_distance)
             ELSE IF RLe(target_distance, RAdd(traveled, dist))
             THEN LET ratio == RDiv(RSub(target_distance, traveled), dist)
                  IN  [pos |-> [latitude |-> RAdd(start.latitude,
                                     RMul(RSub(end.latitude, start.latitude), ratio)),
                                longitude |-> RAdd(start.longitude,
                                     RMul(RSub(end.longitude, start.longitude), ratio))],
                       distance_km |-> total_distance,
                       distance_completed_km |-> RAdd(traveled, RMul(ratio, dist))]
             ELSE WalkPath(path, i + 1, RAdd(traveled, dist), end,
                           target_distance, total_distance)

(* mutant: a path of length 0 is answered with the default position *)
_position_along_path_default(path, progress) ==
    IF Len(path) < 2
    THEN [pos |-> IF path # <<>> THEN path[Len(path)] ELSE Pt(0, 0),
          distance_km |-> Zero, distance_completed_km |-> Zero]
    ELSE LET total_distance == PathTotal(path, 2)
         IN  IF RLe(total_distance, Zero)
             THEN [pos |-> Pt(0, 0),
                   distance_km |-> Zero, distance_completed_km |-> Zero]
             ELSE WalkPath(path, 2, Zero, path[1],
                           RMul(RMax(Zero, RMin(One, progress)), total_distance),
                           total_distance)

(* mutant: the target distance is taken from the progress as given *)
_position_along_path_unclamped(path, progress) ==
    IF Len(path) < 2
    THEN [pos |-> IF path # <<>> THEN path[Len(path)] ELSE Pt(0, 0),
          distance_km |-> Zero, distance_completed_km |-> Zero]
    ELSE LET total_distance == PathTotal(path, 2)
         IN  IF RLe(total_distance, Zero)
             THEN [pos |-> path[Len(path)],
                   distance_km |-> Zero, distance_completed_km |-> Zero]
             ELSE WalkPath(path, 2, Zero, path[1],
                           RMul(progress, total_distance), total_distance)

_position_along_path(path, progress) ==
    IF Len(path) < 2
    THEN [pos |-> IF path # <<>> THEN path[Len(path)] ELSE Pt(0, 0),
          distance_km |-> Zero, distance_completed_km |-> Zero]
    ELSE LET total_distance == PathTotal(path, 2)
         IN  IF RLe(total_distance, Zero)
             THEN [pos |-> path[Len(path)],
                   distance_km |-> Zero, distance_completed_km |-> Zero]
             ELSE WalkPath(path, 2, Zero, path[1],
                           RMul(RMax(Zero, RMin(One, progress)), total_distance),
                           total_distance)

isoformat(t) == <<t.day, t.tod, t.tz>>

Coordinate(w) == [latitude |-> w.latitude, longitude |-> w.longitude]

(* mutant: the filter stops at the first waypoint without a timestamp *)
RECURSIVE SelectTimestamped_until_null(_)
SelectTimestamped_until_null(wps) ==
    IF wps = <<>> \/ wps[1].timestamp = None THEN <<>>
    ELSE <<wps[1]>> \o SelectTimestamped_until_null(Tail(wps))

SelectTimestamped(wps) == SelectSeq(wps, LAMBDA w : w.timestamp # None)

(* lines 147-159: position, segment distance and distance completed *)
segment_figures(w1, w2, progress, road_path) ==
    LET along == IF road_path # None THEN _position_along_path(road_path, progress)
                 ELSE [pos |-> None, distance_km |-> None, distance_completed_km |-> None]
        pos == IF along.pos = None THEN _interpolate_position(w1, w2, progress)
               ELSE along.pos
        distance_km ==
            IF along.distance_km = None \/ RLe(along.distance_km, Zero)
            THEN haversine_distance_km(w1.latitude, w1.longitude, w2.latitude, w2.longitude)
            ELSE along.distance_km
        distance_completed_km ==
            IF along.distance_completed_km = None THEN RMul(distance_km, progress)
            ELSE along.distance_completed_km
    IN  [pos |-> pos, distance_km |-> distance_km,
         distance_completed_km |-> distance_completed_km]

(* mutant: the sum is divided by the number of waypoints *)
overall_progress_by_count(idx, progress, n) ==
    RMul(RDiv(RAdd(R(idx), progress), R(IF n > 1 THEN n ELSE 1)), R(100))

(* mutant: the index of the segment is left out of the sum *)
overall_progress_of_segment(idx, progress, n) ==
    RMul(RDiv(progress, R(IF n - 1 > 1 THEN n - 1 ELSE 1)), R(100))

(* line 166: overall_progress for n sorted waypoints *)
overall_progress(idx, progress, n) ==
    RMul(RDiv(RAdd(R(idx), progress), R(IF n - 1 > 1 THEN n - 1 ELSE 1)), R(100))

(* lines 160-211: the result for a located segment *)
segment_result(sorted_wps, seg, current_time, road_path) ==
    LET idx == seg.idx
        w1 == seg.w1
        w2 == seg.w2
        progress == seg.progress
        last == sorted_wps[Len(sorted_wps)]
        fig == segment_figures(w1, w2, progress, road_path)
        distance_km == fig.distance_km
        distance_completed_km == fig.distance_completed_km
        segment_seconds == total_seconds(w2.timestamp, w1.timestamp)
        hours == IF segment_seconds # 0 THEN Norm(segment_seconds, 3600) ELSE Zero
        speed_kmh == calculate_speed_kmh(distance_km, hours)
        bearing == calculate_bearing(w1.latitude, w1.longitude, w2.latitude, w2.longitude)
        heading == heading_from_bearing(bearing)
        completed_waypoints == idx
        total_waypoints == Len(sorted_wps)
        remaining_waypoints ==
            IF total_waypoints - completed_waypoints > 0
            THEN total_waypoints - completed_waypoints ELSE 0
        to_next == RMax(RSub(distance_km, distance_completed_km), Zero)
    IN  [status |-> IF RLt(Zero, speed_kmh) THEN "moving" ELSE "parked",
         position |-> fig.pos,
         movement_data |->
            [speed_kmh |-> Round(speed_kmh, 2),
             speed_ms |-> Round(RDiv(speed_kmh, Norm(36, 10)), 2),
             bearing |-> Round(bearing, 1),
             heading |-> heading,
             is_accelerating |-> FALSE,
             is_decelerating |-> FALSE],
         route_progress |->
            [current_segment |->
                [from_waypoint_sequence |-> w1.sequence,
                 to_waypoint_sequence |-> w2.sequence,
                 segment_progress_percent |-> Round(RMul(progress, R(100)), 2),
                 from_position |-> [latitude |-> w1.latitude, longitude |-> w1.longitude,
                                    timestamp |-> isoformat(w1.timestamp)],
                 to_position |-> [latitude |-> w2.latitude, longitude |-> w2.longitude,
                                  timestamp |-> isoformat(w2.timestamp)],
                 segment_distance_km |-> Round(distance_km, 5),
                 segment_duration_seconds |-> segment_seconds,
                 road_path |-> road_path],
             overall_progress_percent |->
                Round(overall_progress(idx, progress, Len(sorted_wps)), 2),
             completed_waypoints |-> completed_waypoints,
             total_waypoints |-> total_waypoints,
             remaining_waypoints |-> remaining_waypoints],
         eta |->
            [next_waypoint |-> isoformat(w2.timestamp),
             final_destination |-> isoformat(last.timestamp),
             minutes_to_next_waypoint |->
                Round(Norm(total_seconds(w2.timestamp, current_time), 60), 2),
             minutes_to_destination |->
                Round(Norm(total_seconds(last.timestamp, current_time), 60), 2),
             seconds_to_next_waypoint |->
                Round(R(total_seconds(w2.timestamp, current_time)), 2)],
         distance |->
            [to_next_waypoint_km |-> Round(to_next, 3),
             to_next_waypoint_m |-> Trunc(RMul(to_next, R(1000))),
             total_remaining_km |-> None,
             total_completed_km |-> None]]

(* `outcome` is what the directions provider does if it is called *)
simulate_position(waypoints_in, current_time, api_key, outcome) ==
    IF waypoints_in = <<>> THEN [status |-> "inactive"]
    ELSE LET waypoints == SelectTimestamped(waypoints_in)
         IN  IF waypoints = <<>> THEN [status |-> "inactive"]
             ELSE IF ~AllComparable({waypoints[i].timestamp : i \in 1..Len(waypoints)}
                                    \cup {current_time})
             THEN Raise("TypeError")
             ELSE LET sorted_wps == SortedByTimestamp(waypoints)
                      first == sorted_wps[1]
                      last == sorted_wps[Len(sorted_wps)]
                  IN  IF Instant(current_time) < Instant(first.timestamp)
                      THEN [status |-> "not_started",
                            position |-> [latitude |-> first.latitude,
                                          longitude |-> first.longitude],
                            message |-> "Route not started"]
                      ELSE IF Instant(current_time) > Instant(last.timestamp)
                      THEN [status |-> "completed",
                            position |-> [latitude |-> last.latitude,
                                          longitude |-> last.longitude],
                            message |-> "Route completed"]
                      ELSE LET seg == _find_current_segment(sorted_wps, current_time)
                           IN  IF seg = None
                               THEN [status |-> "inactive",
                                     position |-> [latitude |-> first.latitude,
                                                   longitude |-> first.longitude]]
                               ELSE segment_result(sorted_wps, seg, current_time,
                                        _road_path(seg.w1, seg.w2, api_key, outcome))

(* whether simulate_position reaches the road-path lookup of line 151 with a key *)
CallsDirections(waypoints_in, current_time, api_key) ==
    /\ api_key # None
    /\ "route_progress" \in DOMAIN simulate_position(waypoints_in, current_time, None, None)

----------------------------------------------------------------------------
(* services/excel_processor.py: anchoring of a spreadsheet timestamp       *)

ANCHOR_WEEK_START == Dt(0, 0, Utc)

(* ts is a timestamp or None (missing, NaT); day_of_week is the cell value:
   <<n>> for a number n, None for a value int() rejects *)
_anchor_timestamp(ts, day_of_week) ==
    IF ts = None THEN None
    ELSE LET dow0 == IF day_of_week = None THEN 0 ELSE day_of_week[1]
             dow == IF dow0 < 0 THEN 0 ELSE IF dow0 > 6 THEN 6 ELSE dow0
             anchor_base == Dt(ANCHOR_WEEK_START.day + dow, ANCHOR_WEEK_START.tod,
                               ANCHOR_WEEK_START.tz)
         IN  Dt(anchor_base.day, ts.tod, anchor_base.tz)

----------------------------------------------------------------------------
(* api/schemas/simulation_schemas.py, api/routers/v1_simulation.py         *)

WaypointInputFields ==
    {"sequence", "timestamp", "day_of_week", "latitude", "longitude",
     "is_parking", "original_address"}

PositionRequestFields ==
    {"vehicle_id", "current_time", "day_of_week", "is_day_active", "waypoints",
     "last_known_position", "interpolation_method"}

ANCHOR_MONDAY == Dt(0, 0, Naive)

_anchor_current_time(current_time, day_of_week) ==
    LET base == Dt(ANCHOR_MONDAY.day + day_of_week, ANCHOR_MONDAY.tod, ANCHOR_MONDAY.tz)
    IN  Dt(base.day, current_time.tod, current_time.tz)

(* [w.model_dump() for w in req.waypoints]: one dict per waypoint, keyed by
   the fields of WaypointInput *)
model_dump(waypoints) ==
    [i \in 1..Len(waypoints) |-> [f \in WaypointInputFields |-> waypoints[i][f]]]

(* `outcome` is what the directions provider does if it is called.  Reading
   an attribute the request model does not declare raises AttributeError,
   before simulate_position is called. *)
calculate_position(req, outcome) ==
    LET waypoints == model_dump(req.waypoints)
        anchored_now == _anchor_current_time(req.current_time, req.day_of_week)
    IN  IF "api_key" \notin PositionRequestFields THEN Raise("AttributeError")
        ELSE [success |-> TRUE, vehicle_id |-> req.vehicle_id]
             @@ simulate_position(waypoints, anchored_now, req.api_key, outcome)

----------------------------------------------------------------------------
(* Inputs                                                                  *)

WpPoints == {PtA, PtB}
PathPoints == {PtA, PtB}
ApiKeys == {None, <<"k1">>}

WpTimestamps == {Dt(0, tod, Naive) : tod \in 1..MaxTod} \cup {None}
QueryTimes == {Dt(0, tod, Naive) : tod \in 0..(MaxTod + 1)} \cup {Dt(0, 1, Utc)}

Waypoint(i, ts, p, parking) ==
    [sequence |-> i, timestamp |-> ts, latitude |-> p.latitude,
     longitude |-> p.longitude, is_parking |-> parking]

(* the lists of n waypoints; the is_parking flag is drawn once for the list *)
WaypointLists(n, timestamps) ==
    {[i \in 1..n |-> Waypoint(i, f[i][1], f[i][2], parking)] :
        f \in [1..n -> timestamps \X WpPoints], parking \in BOOLEAN}

Paths(n) == UNION {[1..k -> PathPoints] : k \in 0..n}

Outcomes ==
    {[kind |-> k] : k \in {"client_error", "empty"}}
    \cup {[kind |-> "error", steps |-> p] : p \in Paths(1)}
    \cup {[kind |-> "route", steps |-> p, overview |-> <<>>] : p \in Paths(MaxPath)}
    \cup {[kind |-> "route", steps |-> <<>>, overview |-> p] : p \in Paths(MaxPath)}

NotCalled == [kind |-> "not_called"]

(* a client is constructed, and can fail to be, only for a key not yet cached *)
PossibleOutcomes(clients, api_key) ==
    {o \in Outcomes : o.kind = "client_error" => api_key \notin clients}

----------------------------------------------------------------------------
(* The service as a state machine: one action per operation.  The process *)
(* is idle or has served one call, whose arguments and result the state   *)
(* holds until Return; gmaps_clients is the module-level client cache,    *)
(* which outlives the calls.  Calls with an api key are drawn for lists of *)
(* at most MaxRoadWps waypoints.                                           *)

Init ==
    /\ gmaps_clients = {}
    /\ op = "idle"
    /\ args = None
    /\ result = None
    /\ args2 = None
    /\ result2 = None

SimulatePosition ==
    /\ op = "idle"
    /\ \E n \in 0..MaxWps : \E waypoints \in WaypointLists(n, WpTimestamps) :
       \E current_time \in QueryTimes :
       \E api_key \in (IF n <= MaxRoadWps THEN ApiKeys ELSE {None}) :
       \E outcome \in (IF CallsDirections(waypoints, current_time, api_key)
                       THEN PossibleOutcomes(gmaps_clients, api_key)
                       ELSE {NotCalled}) :
          /\ op' = "simulate_position"
          /\ args' = [waypoints |-> waypoints, current_time |-> current_time,
                      api_key |-> api_key, outcome |-> outcome]
          /\ result' = simulate_position(waypoints, current_time, api_key, outcome)
          /\ gmaps_clients' = IF outcome = NotCalled THEN gmaps_clients
                              ELSE _get_gmaps_client(gmaps_clients, api_key, outcome)
          /\ UNCHANGED <<args2, result2>>

----------------------------------------------------------------------------
(* Anchoring and the calculate-position handler                            *)

Zones == {Naive, Utc, Tz(1)}
CalendarDays == {7 * w + d : w \in 0..MaxWeeks, d \in 0..1}
CalendarTimes == {Dt(d, tod, z) : d \in CalendarDays, tod \in 0..1, z \in Zones}
DayOfWeekValues == (0 - 1)..MaxDow
DayOfWeekCells == {<<n>> : n \in DayOfWeekValues} \cup {None}

RequestWaypoints(n) ==
    {[i \in 1..n |->
        [sequence |-> i, timestamp |-> Dt(f[i][1], f[i][2], Naive), day_of_week |-> 0,
         latitude |-> f[i][3].latitude, longitude |-> f[i][3].longitude,
         is_parking |-> FALSE, original_address |-> None]] :
        f \in [1..n -> {0, 7} \X (1..2) \X WpPoints]}

(* the same timestamp on the same weekday k weeks later *)
WeeksLater(t, k) == Dt(t.day + 7 * k, t.tod, t.tz)

RequestWeeksLater(req, k) ==
    [req EXCEPT !.current_time = WeeksLater(@, k),
                !.waypoints = [i \in 1..Len(@) |->
                                 [@[i] EXCEPT !.timestamp = WeeksLater(@, k)]]]

AnchorTimestamp ==
    /\ op = "idle"
    /\ \E ts \in CalendarTimes \cup {None} : \E day_of_week \in DayOfWeekCells :
          /\ op' = "_anchor_timestamp"
          /\ args' = [ts |-> ts, day_of_week |-> day_of_week]
          /\ result' = _anchor_timestamp(ts, day_of_week)
    /\ UNCHANGED <<gmaps_clients, args2, result2>>

(* a second timestamp with the same weekday index and time of day, on
   another calendar date or in another zone *)
AnchorTimestampAgain ==
    /\ op = "_anchor_timestamp"
    /\ args.ts # None
    /\ \E ts \in CalendarTimes :
          /\ ts.tod = args.ts.tod /\ ts # args.ts
          /\ op' = "_anchor_timestamp again"
          /\ args2' = [ts |-> ts, day_of_week |-> args.day_of_week]
          /\ result2' = _anchor_timestamp(ts, args.day_of_week)
    /\ UNCHANGED <<gmaps_clients, args, result>>

AnchorCurrentTime ==
    /\ op = "idle"
    /\ \E current_time \in CalendarTimes : \E day_of_week \in DayOfWeekValues :
          /\ op' = "_anchor_current_time"
          /\ args' = [current_time |-> current_time, day_of_week |-> day_of_week]
          /\ result' = _anchor_current_time(current_time, day_of_week)
    /\ UNCHANGED <<gmaps_clients, args2, result2>>

AnchorCurrentTimeAgain ==
    /\ op = "_anchor_current_time"
    /\ \E current_time \in CalendarTimes :
          /\ current_time.tod = args.current_time.tod /\ current_time # args.current_time
          /\ op' = "_anchor_current_time again"
          /\ args2' = [current_time |-> current_time, day_of_week |-> args.day_of_week]
          /\ result2' = _anchor_current_time(current_time, args.day_of_week)
    /\ UNCHANGED <<gmaps_clients, args, result>>

CalculatePosition ==
    /\ op = "idle"
    /\ \E n \in 0..MaxReqWps : \E waypoints \in RequestWaypoints(n) :
       \E current_time \in CalendarTimes : \E day_of_week \in DayOfWeekValues :
          LET req == [vehicle_id |-> "v1", current_time |-> current_time,
                      day_of_week |-> day_of_week, is_day_active |-> TRUE,
                      waypoints |-> waypoints, last_known_position |-> None,
                      interpolation_method |-> "linear"]
          IN  /\ op' = "calculate_position"
              /\ args' = req
              /\ result' = calculate_position(req, NotCalled)
    /\ UNCHANGED <<gmaps_clients, args2, result2>>

(* the same request replayed some weeks later: every timestamp on a later
   calendar date, weekday indices and times of day unchanged *)
CalculatePositionAgain ==
    /\ op = "calculate_position"
    /\ \E k \in 1..MaxWeeks :
          /\ op' = "calculate_position again"
          /\ args2' = RequestWeeksLater(args, k)
          /\ result2' = calculate_position(RequestWeeksLater(args, k), NotCalled)
    /\ UNCHANGED <<gmaps_clients, args, result>>

Return ==
    /\ op # "idle"
    /\ op' = "idle"
    /\ args' = None
    /\ result' = None
    /\ args2' = None
    /\ result2' = None
    /\ UNCHANGED gmaps_clients

Next == SimulatePosition \/ Return

Spec == Init /\ [][Next]_vars

NextAnchor ==
    \/ AnchorTimestamp \/ AnchorTimestampAgain
    \/ AnchorCurrentTime \/ AnchorCurrentTimeAgain
    \/ CalculatePosition \/ CalculatePositionAgain
    \/ Return

SpecAnchor == Init /\ [][NextAnchor]_vars

----------------------------------------------------------------------------
(* Notions the properties are stated with                                  *)

Simulated == op = "simulate_position"

TimestampedIdx(wps) == {i \in 1..Len(wps) : wps[i].timestamp # None}

WellTimed(wps, t) ==
    /\ TimestampedIdx(wps) # {}
    /\ \A i \in TimestampedIdx(wps) : Comparable(wps[i].timestamp, t)

(* the earliest waypoint: least timestamp, first in input order among equals *)
EarliestIdx(wps) ==
    CHOOSE i \in TimestampedIdx(wps) : \A j \in TimestampedIdx(wps) :
        \/ Instant(wps[i].timestamp) < Instant(wps[j].timestamp)
        \/ Instant(wps[i].timestamp) = Instant(wps[j].timestamp) /\ i <= j

(* the latest waypoint: greatest timestamp, last in input order among equals *)
LatestIdx(wps) ==
    CHOOSE i \in TimestampedIdx(wps) : \A j \in TimestampedIdx(wps) :
        \/ Instant(wps[i].timestamp) > Instant(wps[j].timestamp)
        \/ Instant(wps[i].timestamp) = Instant(wps[j].timestamp) /\ i >= j

Located(r) == "route_progress" \in DOMAIN r
Segment(r) == r.route_progress.current_segment

(* C1: simulate_position with a query time strictly before the smallest
   waypoint timestamp answers not_started, positioned exactly at the
   earliest waypoint. *)
C1_NotStarted ==
    (Simulated /\ WellTimed(args.waypoints, args.current_time)
       /\ \A i \in TimestampedIdx(args.waypoints) :
             Instant(args.current_time) < Instant(args.waypoints[i].timestamp))
    => /\ ~Raised(result)
       /\ result.status = "not_started"
       /\ result.position = Coordinate(args.waypoints[EarliestIdx(args.waypoints)])

C1_Witness ==
    /\ Simulated /\ ~Raised(result) /\ result.status = "not_started"
    /\ Cardinality(TimestampedIdx(args.waypoints)) >= 2
    /\ \E i \in TimestampedIdx(args.waypoints) :
          Coordinate(args.waypoints[i]) # result.position

(* C2: simulate_position with a query time strictly after the largest
   waypoint timestamp answers completed, positioned exactly at the latest
   waypoint. *)
C2_Completed ==
    (Simulated /\ WellTimed(args.waypoints, args.current_time)
       /\ \A i \in TimestampedIdx(args.waypoints) :
             Instant(args.current_time) > Instant(args.waypoints[i].timestamp))
    => /\ ~Raised(result)
       /\ result.status = "completed"
       /\ result.position = Coordinate(args.waypoints[LatestIdx(args.waypoints)])

C2_Witness ==
    /\ Simulated /\ ~Raised(result) /\ result.status = "completed"
    /\ Cardinality(TimestampedIdx(args.waypoints)) >= 2
    /\ \E i \in TimestampedIdx(args.waypoints) :
          Coordinate(args.waypoints[i]) # result.position

(* C3: with no waypoint, or none that has a timestamp, simulate_position
   answers inactive without a position; otherwise the waypoints without a
   timestamp play no part: the waypoints counted and the pair reported are
   the timestamped ones, and one timestamped waypoint is enough for the
   result to carry a position. *)
C3_InactiveAndNullsIgnored ==
    Simulated =>
    /\ TimestampedIdx(args.waypoints) = {} => result = [status |-> "inactive"]
    /\ (~Raised(result) /\ Located(result)) =>
          /\ result.route_progress.total_waypoints
                = Cardinality(TimestampedIdx(args.waypoints))
          /\ \E i, j \in TimestampedIdx(args.waypoints) :
                /\ Segment(result).from_waypoint_sequence = i
                /\ Segment(result).to_waypoint_sequence = j
    /\ WellTimed(args.waypoints, args.current_time) =>
          ~Raised(result) /\ "position" \in DOMAIN result

C3_Witness ==
    /\ Simulated /\ args.waypoints # <<>> /\ TimestampedIdx(args.waypoints) = {}
    /\ result = [status |-> "inactive"]

C3_WitnessNullIgnored ==
    /\ Simulated /\ ~Raised(result) /\ Located(result)
    /\ Len(args.waypoints) > Cardinality(TimestampedIdx(args.waypoints))

(* the datetime an isoformat string of the result denotes *)
FromIso(iso) == Dt(iso[1], iso[2], iso[3])

(* progress of the query between the two waypoints the result reports *)
ReportedProgress(r, now) ==
    LET t1 == FromIso(Segment(r).from_position.timestamp)
        t2 == FromIso(Segment(r).to_position.timestamp)
    IN  IF Instant(t2) <= Instant(t1) THEN Zero
        ELSE Norm(Instant(now) - Instant(t1), Instant(t2) - Instant(t1))

FromCoordinate(r) == Coordinate(Segment(r).from_position)
ToCoordinate(r) == Coordinate(Segment(r).to_position)
StraightDistance(r) == PointDistance(FromCoordinate(r), ToCoordinate(r))

LocatedCall == Simulated /\ ~Raised(result) /\ Located(result)

(* C4: for a located segment the status is moving exactly when the segment
   distance over the segment duration (0 when the duration is not positive)
   is positive, and parked otherwise, whatever the is_parking flags. *)
C4_MovingIffSpeedPositive ==
    LocatedCall =>
    LET dur == Segment(result).segment_duration_seconds
        dist == Segment(result).segment_distance_km
        speed == IF dur <= 0 THEN Zero ELSE RDiv(dist, Norm(dur, 3600))
    IN  /\ result.status = IF RLt(Zero, speed) THEN "moving" ELSE "parked"
        /\ result.movement_data.speed_kmh = Round(speed, 2)

C4_Witness ==
    /\ LocatedCall /\ result.status = "moving"
    /\ args.waypoints[Segment(result).to_waypoint_sequence].is_parking
    /\ args.waypoints[Segment(result).from_waypoint_sequence].is_parking

(* C8 as claimed: for a located segment the position is exactly w1's
   coordinate at progress 0 and exactly w2's at progress 1. *)
C8_EndpointsExact ==
    LocatedCall =>
    /\ ReportedProgress(result, args.current_time) = Zero
          => result.position = FromCoordinate(result)
    /\ ReportedProgress(result, args.current_time) = One
          => result.position = ToCoordinate(result)

(* C8 amended: when no road path is used, the position of a located segment
   is exactly w1's coordinate at progress 0 and exactly w2's at progress 1. *)
C8_LinearEndpointsExact ==
    (LocatedCall /\ Segment(result).road_path = None) =>
    /\ ReportedProgress(result, args.current_time) = Zero
          => result.position = FromCoordinate(result)
    /\ ReportedProgress(result, args.current_time) = One
          => result.position = ToCoordinate(result)

C8_Witness ==
    /\ LocatedCall /\ Segment(result).road_path = None
    /\ ReportedProgress(result, args.current_time) = One
    /\ FromCoordinate(result) # ToCoordinate(result)
    /\ result.position = ToCoordinate(result)

(* C9: the segment distance comes from the road path whenever the position
   and the distance traveled do: with a road path in use the segment
   distance is the length of that path (a single point or a path of length
   0 included), and without one it is the haversine distance. *)
C9_DistancesSameSource ==
    LocatedCall =>
    Segment(result).segment_distance_km =
        IF Segment(result).road_path # None
        THEN Round(PathTotal(Segment(result).road_path, 2), 5)
        ELSE Round(StraightDistance(result), 5)

(* C10: when the road-path lookup raises or returns nothing, the call returns
   the linear-mode result: linearly interpolated position, haversine segment
   distance, traveled = segment distance * progress. *)
LookupFailed(o) ==
    \/ o.kind \in {"client_error", "error", "empty"}
    \/ o.kind = "route" /\ o.steps = <<>> /\ o.overview = <<>>

C10_LookupFailureIsLinear ==
    (Simulated /\ LookupFailed(args.outcome)) =>
    LET p == ReportedProgress(result, args.current_time)
        d == StraightDistance(result)
        lerp(a, b) == IF p = Zero THEN a ELSE IF p = One THEN b
                      ELSE RAdd(a, RMul(RSub(b, a), p))
    IN  /\ LocatedCall
        /\ result = simulate_position(args.waypoints, args.current_time, None, NotCalled)
        /\ Segment(result).road_path = None
        /\ result.position =
              [latitude |-> lerp(FromCoordinate(result).latitude,
                                 ToCoordinate(result).latitude),
               longitude |-> lerp(FromCoordinate(result).longitude,
                                  ToCoordinate(result).longitude)]
        /\ Segment(result).segment_distance_km = Round(d, 5)
        /\ result.distance.to_next_waypoint_km = Round(RSub(d, RMul(d, p)), 3)

C10_Witness ==
    /\ LocatedCall /\ args.outcome.kind = "error" /\ args.outcome.steps # <<>>
    /\ RLt(Zero, ReportedProgress(result, args.current_time))
    /\ RLt(ReportedProgress(result, args.current_time), One)
    /\ FromCoordinate(result) # ToCoordinate(result)

----------------------------------------------------------------------------
(* Anchoring properties (SpecAnchor)                                       *)

SamePlayback(r1, r2) ==
    /\ ~Raised(r1) /\ ~Raised(r2)
    /\ r1.status = r2.status
    /\ ("position" \in DOMAIN r1) = ("position" \in DOMAIN r2)
    /\ "position" \in DOMAIN r1 => r1.position = r2.position
    /\ Located(r1) = Located(r2)
    /\ Located(r1) =>
          /\ Segment(r1).segment_progress_percent = Segment(r2).segment_progress_percent
          /\ r1.route_progress.overall_progress_percent
                = r2.route_progress.overall_progress_percent

(* C5: two calculate-position requests that differ only in the calendar
   date of their timestamps (same day_of_week, same times of day) yield the
   same status, position and progress. *)
C5_CalendarIndependent ==
    op = "calculate_position again" => SamePlayback(result, result2)

(* what lines 29-31 of the handler pass to simulate_position and get back
   when no api key is given *)
playback(req) ==
    simulate_position(model_dump(req.waypoints),
                      _anchor_current_time(req.current_time, req.day_of_week),
                      None, NotCalled)

(* the comparison of C5 on the playback of the two requests alone *)
PlaybackCalendarIndependent ==
    op = "calculate_position again" => SamePlayback(playback(args), playback(args2))

(* C6: every anchored instant lies in the seven days of the reference week:
   the weekday index is clamped to 0..6, for the query time as for a
   waypoint timestamp. *)
ClampedDow(d) == IF d < 0 THEN 0 ELSE IF d > 6 THEN 6 ELSE d

C6_AnchoredInsideReferenceWeek ==
    /\ (op = "_anchor_timestamp" /\ result # None) =>
          /\ result.day \in 0..6
          /\ args.day_of_week # None => result.day = ClampedDow(args.day_of_week[1])
    /\ op = "_anchor_current_time" =>
          /\ result.day \in 0..6
          /\ result.day = ClampedDow(args.day_of_week)

(* C7: two timestamps with the same weekday index and time of day anchor to
   the identical instant, whatever their calendar dates and zones. *)
C7_AnchorOfWeekdayAndTimeOnly ==
    op \in {"_anchor_timestamp again", "_anchor_current_time again"} =>
        result2 = result

----------------------------------------------------------------------------
(* Distance and progress figures of a located segment (Spec)               *)

(* C11: in every moving or parked result the remaining distance to the next
   waypoint is never negative, equals the segment distance at progress 0 and
   is 0 at progress 1. *)
C11_RemainingDistance ==
    LocatedCall =>
    LET p == ReportedProgress(result, args.current_time)
        km == result.distance.to_next_waypoint_km
    IN  /\ RLe(Zero, km)
        /\ result.distance.to_next_waypoint_m >= 0
        /\ p = Zero => km = Round(Segment(result).segment_distance_km, 3)
        /\ p = One => km = Zero

----------------------------------------------------------------------------
(* Segment location on a finer time grid: _find_current_segment on its own *)
(* and simulate_position without an api key, over waypoints that all have  *)
(* a timestamp, in any order                                               *)

SegmentWaypointLists(n) ==
    {[i \in 1..n |-> Waypoint(i, Dt(0, f[i], Naive),
                              IF i % 2 = 1 THEN PtA ELSE PtB, FALSE)] :
        f \in [1..n -> 1..MaxSegTod]}

SegmentQueryTimes == {Dt(0, tod, Naive) : tod \in 0..(MaxSegTod + 1)}

FindCurrentSegment ==
    /\ op = "idle"
    /\ \E n \in 0..MaxSegWps : \E waypoints \in SegmentWaypointLists(n) :
       \E current_time \in SegmentQueryTimes :
          /\ op' = "_find_current_segment"
          /\ args' = [waypoints |-> waypoints, current_time |-> current_time]
          /\ result' = _find_current_segment(waypoints, current_time)
    /\ UNCHANGED <<gmaps_clients, args2, result2>>

SimulatePositionLinear ==
    /\ op = "idle"
    /\ \E n \in 0..MaxSegWps : \E waypoints \in SegmentWaypointLists(n) :
       \E current_time \in SegmentQueryTimes :
          /\ op' = "simulate_position"
          /\ args' = [waypoints |-> waypoints, current_time |-> current_time,
                      api_key |-> None, outcome |-> NotCalled]
          /\ result' = simulate_position(waypoints, current_time, None, NotCalled)
    /\ UNCHANGED <<gmaps_clients, args2, result2>>

(* the same waypoint list queried again at a later time *)
SimulatePositionLater ==
    /\ op = "simulate_position"
    /\ \E current_time \in SegmentQueryTimes :
          /\ Instant(current_time) > Instant(args.current_time)
          /\ op' = "simulate_position later"
          /\ args2' = [args EXCEPT !.current_time = current_time]
          /\ result2' = simulate_position(args.waypoints, current_time, None, NotCalled)
    /\ UNCHANGED <<gmaps_clients, args, result>>

NextSegment ==
    \/ FindCurrentSegment \/ SimulatePositionLinear \/ SimulatePositionLater
    \/ Return

SpecSegment == Init /\ [][NextSegment]_vars

(* input order: simulate_position without an api key called twice on the
   same waypoints in two orders *)
Orderings(n) == {f \in [1..n -> 1..n] : \A i, j \in 1..n : f[i] = f[j] => i = j}

(* the same waypoints passed again in another order, same query time *)
SimulatePositionPermuted ==
    /\ op = "simulate_position"
    /\ \E f \in Orderings(Len(args.waypoints)) :
          LET waypoints == [i \in 1..Len(args.waypoints) |-> args.waypoints[f[i]]]
          IN  /\ waypoints # args.waypoints
              /\ op' = "simulate_position permuted"
              /\ args2' = [args EXCEPT !.waypoints = waypoints]
              /\ result2' = simulate_position(waypoints, args.current_time,
                                               None, NotCalled)
    /\ UNCHANGED <<gmaps_clients, args, result>>

NextOrder == SimulatePositionLinear \/ SimulatePositionPermuted \/ Return

SpecOrder == Init /\ [][NextOrder]_vars

(* the 1-based positions of the adjacent pairs of s that bracket t *)
BracketingPairs(s, t) ==
    {i \in 1..(Len(s) - 1) :
        Instant(s[i].timestamp) <= Instant(t) /\ Instant(t) <= Instant(s[i + 1].timestamp)}

FirstBracketingPair(s, t) ==
    CHOOSE i \in BracketingPairs(s, t) : \A j \in BracketingPairs(s, t) : i <= j

(* (t - t1) / (t2 - t1) clamped to [0, 1], 0 when t2 - t1 <= 0 *)
ClampedProgress(t1, t2, t) ==
    IF Instant(t2) - Instant(t1) <= 0 THEN Zero
    ELSE LET q == Norm(Instant(t) - Instant(t1), Instant(t2) - Instant(t1))
         IN  IF RLt(q, Zero) THEN Zero ELSE IF RLt(One, q) THEN One ELSE q

(* C12: in every moving or parked result overall_progress_percent is
   (segment_index + progress) / (waypoint_count - 1) * 100, reported to two
   decimals, where segment_index is the 0-based index of the first bracketing
   pair of the time-sorted list and waypoint_count the number of timestamped
   waypoints. *)
C12_OverallProgress ==
    LocatedCall =>
    LET s == SortedByTimestamp(SelectTimestamped(args.waypoints))
        i == FirstBracketingPair(s, args.current_time)
        progress == ClampedProgress(s[i].timestamp, s[i + 1].timestamp, args.current_time)
        waypoint_count == Cardinality(TimestampedIdx(args.waypoints))
    IN  /\ waypoint_count >= 2
        /\ result.route_progress.overall_progress_percent =
              Round(RMul(RDiv(RAdd(R(i - 1), progress), R(waypoint_count - 1)), R(100)), 2)

C12_Witness ==
    /\ LocatedCall
    /\ result.route_progress.total_waypoints = 3
    /\ result.route_progress.completed_waypoints = 1
    /\ result.route_progress.overall_progress_percent = Norm(6667, 100)

----------------------------------------------------------------------------
(* utils/geo_math.py: heading_from_bearing on bearings in tenths of a degree *)

Bearings == {Norm(k, 10) : k \in 0..MaxBearingTenths}

HeadingFromBearing ==
    /\ op = "idle"
    /\ \E bearing \in Bearings :
          /\ op' = "heading_from_bearing"
          /\ args' = [bearing |-> bearing]
          /\ result' = heading_from_bearing(bearing)
    /\ UNCHANGED <<gmaps_clients, args2, result2>>

NextHeading == HeadingFromBearing \/ Return

SpecHeading == Init /\ [][NextHeading]_vars

CompassRose == {"N", "NE", "E", "SE", "S", "SW", "W", "NW"}

(* C13 as claimed: heading_from_bearing yields a point of the 8-way compass
   rose, "N" for bearing 0, "N" for bearing 44.9 and "NE" for bearing 45. *)
C13_HeadingExamples ==
    op = "heading_from_bearing" =>
    /\ result \in CompassRose
    /\ args.bearing = R(0) => result = "N"
    /\ args.bearing = Norm(449, 10) => result = "N"
    /\ args.bearing = R(45) => result = "NE"

(* C13 amended: heading_from_bearing yields the point of the 8-way compass
   rose whose 45-degree bucket, centred on its multiple of 45 degrees,
   holds the bearing: [45k - 22.5, 45k + 22.5) for the k-th point.  Bearing 0
   gives "N", 22.4 gives "N", 22.5, 44.9 and 45 give "NE". *)
C13_HeadingCentredBuckets ==
    op = "heading_from_bearing" =>
    /\ result \in CompassRose
    /\ \A k \in 0..8 :
          (/\ RLe(Norm(450 * k - 225, 10), args.bearing)
           /\ RLt(args.bearing, Norm(450 * k + 225, 10)))
          => result = <<"N", "NE", "E", "SE", "S", "SW", "W", "NW", "N">>[k + 1]
    /\ args.bearing = R(0) => result = "N"
    /\ args.bearing = Norm(224, 10) => result = "N"
    /\ args.bearing = Norm(225, 10) => result = "NE"
    /\ args.bearing = Norm(449, 10) => result = "NE"
    /\ args.bearing = R(45) => result = "NE"

C13_Witness ==
    /\ op = "heading_from_bearing"
    /\ args.bearing = Norm(449, 10)
    /\ result = "NE"

----------------------------------------------------------------------------
(* services/route_calculator.py                                            *)

(* sum(xs) and max(xs) of a list of floats *)
RECURSIVE SeqSum(_)
SeqSum(xs) == IF xs = <<>> THEN Zero ELSE RAdd(xs[1], SeqSum(Tail(xs)))

RECURSIVE SeqMax(_)
SeqMax(xs) == IF Len(xs) = 1 THEN xs[1] ELSE RMax(xs[1], SeqMax(Tail(xs)))

RECURSIVE SeqMin(_)
SeqMin(xs) == IF Len(xs) = 1 THEN xs[1] ELSE RMin(xs[1], SeqMin(Tail(xs)))

(* a pair whose timestamps are both present, one naive and one aware: its
   comparison or difference raises TypeError *)
PairRaises(p1, p2) ==
    /\ p1.timestamp # None /\ p2.timestamp # None
    /\ ~Comparable(p1.timestamp, p2.timestamp)

AnyPairRaises(waypoints) ==
    \E i \in 2..Len(waypoints) : PairRaises(waypoints[i - 1], waypoints[i])

(* mutant: a pair with equal timestamps has a speed too *)
PairHasSpeed_or_equal(p1, p2) ==
    /\ p1.timestamp # None /\ p2.timestamp # None
    /\ Instant(p2.timestamp) >= Instant(p1.timestamp)

(* lines 18-20: `if t1 and t2 and t2 > t1` *)
PairHasSpeed(p1, p2) ==
    /\ p1.timestamp # None /\ p2.timestamp # None
    /\ Instant(p2.timestamp) > Instant(p1.timestamp)

(* lines 13-23 from pair i on: the speeds appended *)
RECURSIVE route_speeds(_, _)
route_speeds(waypoints, i) ==
    IF i > Len(waypoints) THEN <<>>
    ELSE LET p1 == waypoints[i - 1]
             p2 == waypoints[i]
             dist == PointDistance(p1, p2)
             hours == Norm(total_seconds(p2.timestamp, p1.timestamp), 3600)
         IN  (IF PairHasSpeed(p1, p2) THEN <<calculate_speed_kmh(dist, hours)>> ELSE <<>>)
             \o route_speeds(waypoints, i + 1)

calculate_route_statistics(waypoints) ==
    IF Len(waypoints) < 2
    THEN [total_distance_km |-> Zero, max_speed_kmh |-> Zero, average_speed_kmh |-> Zero]
    ELSE IF AnyPairRaises(waypoints) THEN Raise("TypeError")
    ELSE LET total_km == SeqSum([i \in 1..(Len(waypoints) - 1) |->
                                    PointDistance(waypoints[i], waypoints[i + 1])])
             speeds == route_speeds(waypoints, 2)
             avg_speed == IF speeds # <<>> THEN RDiv(SeqSum(speeds), R(Len(speeds)))
                          ELSE Zero
         IN  [total_distance_km |-> total_km,
              max_speed_kmh |-> IF speeds # <<>> THEN SeqMax(speeds) ELSE Zero,
              average_speed_kmh |-> avg_speed]

(* mutant: the corners are taken from the first and the last waypoint *)
find_route_bounds_endpoints(waypoints) ==
    IF waypoints = <<>> THEN [northeast |-> None, southwest |-> None, center |-> None]
    ELSE LET ne == Coordinate(waypoints[Len(waypoints)])
             sw == Coordinate(waypoints[1])
             center == [latitude |-> RDiv(RAdd(ne.latitude, sw.latitude), R(2)),
                        longitude |-> RDiv(RAdd(ne.longitude, sw.longitude), R(2))]
         IN  [northeast |-> ne, southwest |-> sw, center |-> center]

find_route_bounds(waypoints) ==
    IF waypoints = <<>> THEN [northeast |-> None, southwest |-> None, center |-> None]
    ELSE LET lats == [i \in 1..Len(waypoints) |-> waypoints[i].latitude]
             lngs == [i \in 1..Len(waypoints) |-> waypoints[i].longitude]
             ne == [latitude |-> SeqMax(lats), longitude |-> SeqMax(lngs)]
             sw == [latitude |-> SeqMin(lats), longitude |-> SeqMin(lngs)]
             center == [latitude |-> RDiv(RAdd(ne.latitude, sw.latitude), R(2)),
                        longitude |-> RDiv(RAdd(ne.longitude, sw.longitude), R(2))]
         IN  [northeast |-> ne, southwest |-> sw, center |-> center]

(* lines 41-63: the entry appended for pair (waypoints[i - 1], waypoints[i]);
   flag_of is the waypoint whose is_parking flag the entry takes *)
segment_entry(waypoints, i, flag_of) ==
    LET p1 == waypoints[i - 1]
        p2 == waypoints[i]
        dist_km == PointDistance(p1, p2)
        timed == p1.timestamp # None /\ p2.timestamp # None
        minutes == Norm(total_seconds(p2.timestamp, p1.timestamp), 60)
        duration_minutes == IF timed THEN RMax(Zero, minutes) ELSE None
        speed_kmh == IF timed
                     THEN calculate_speed_kmh(dist_km, RDiv(duration_minutes, R(60)))
                     ELSE Zero
        bearing == calculate_bearing(p1.latitude, p1.longitude, p2.latitude, p2.longitude)
    IN  [segment_number |-> i - 1,
         from_sequence |-> p1.sequence,
         to_sequence |-> p2.sequence,
         distance_km |-> Round(dist_km, 3),
         distance_m |-> Trunc(RMul(dist_km, R(1000))),
         duration |-> None,
         duration_minutes |-> IF duration_minutes = None THEN None
                              ELSE Round(duration_minutes, 2),
         speed_kmh |-> Round(speed_kmh, 2),
         bearing |-> Round(bearing, 1),
         is_parking |-> flag_of.is_parking]

(* mutant: an entry takes the is_parking flag of the pair's origin *)
analyze_segments_origin_flag(waypoints) ==
    IF AnyPairRaises(waypoints) THEN Raise("TypeError")
    ELSE [k \in 1..(Len(waypoints) - 1) |->
             segment_entry(waypoints, k + 1, waypoints[k])]

analyze_segments(waypoints) ==
    IF AnyPairRaises(waypoints) THEN Raise("TypeError")
    ELSE [k \in 1..(Len(waypoints) - 1) |->
             segment_entry(waypoints, k + 1, waypoints[k + 1])]

BinNames == {"0-20_kmh", "20-40_kmh", "40-60_kmh", "60+_kmh"}

(* mutant: a speed on a boundary is counted in the bin below *)
BinOf_closed(x) ==
    IF RLe(x, R(20)) THEN "0-20_kmh"
    ELSE IF RLe(x, R(40)) THEN "20-40_kmh"
    ELSE IF RLe(x, R(60)) THEN "40-60_kmh"
    ELSE "60+_kmh"

(* lines 70-77: the bin one speed is counted in *)
BinOf(x) ==
    IF RLt(x, R(20)) THEN "0-20_kmh"
    ELSE IF RLt(x, R(40)) THEN "20-40_kmh"
    ELSE IF RLt(x, R(60)) THEN "40-60_kmh"
    ELSE "60+_kmh"

speed_distribution(speeds) ==
    [b \in BinNames |-> Cardinality({i \in 1..Len(speeds) : BinOf(speeds[i]) = b})]

----------------------------------------------------------------------------
(* Route analysis as a state machine: one action per function              *)

RoutePoints == {PtA, PtB}
BoundsPoints == {PtA, PtB, PtC, PtD}
RouteTimestamps ==
    {Dt(0, tod, Naive) : tod \in 1..MaxRouteTod} \cup {None, Dt(0, 1, Utc)}
SpeedValues == {R(0), R(10), R(20), R(25), R(40), R(45), R(60), R(65)}

RouteWaypointLists(n, points, timestamps, flags) ==
    {[i \in 1..n |-> Waypoint(i, f[i][1], f[i][2], f[i][3])] :
        f \in [1..n -> timestamps \X points \X flags]}

CalculateRouteStatistics ==
    /\ op = "idle"
    /\ \E n \in 0..MaxRouteWps :
       \E waypoints \in RouteWaypointLists(n, RoutePoints, RouteTimestamps, {FALSE}) :
          /\ op' = "calculate_route_statistics"
          /\ args' = [waypoints |-> waypoints]
          /\ result' = calculate_route_statistics(waypoints)
    /\ UNCHANGED <<gmaps_clients, args2, result2>>

FindRouteBounds ==
    /\ op = "idle"
    /\ \E n \in 0..MaxRouteWps :
       \E waypoints \in RouteWaypointLists(n, BoundsPoints, {None}, {FALSE}) :
          /\ op' = "find_route_bounds"
          /\ args' = [waypoints |-> waypoints]
          /\ result' = find_route_bounds(waypoints)
    /\ UNCHANGED <<gmaps_clients, args2, result2>>

AnalyzeSegments ==
    /\ op = "idle"
    /\ \E n \in 0..MaxRouteWps :
       \E waypoints \in RouteWaypointLists(n, RoutePoints, RouteTimestamps, BOOLEAN) :
          /\ op' = "analyze_segments"
          /\ args' = [waypoints |-> waypoints]
          /\ result' = analyze_segments(waypoints)
    /\ UNCHANGED <<gmaps_clients, args2, result2>>

SpeedDistribution ==
    /\ op = "idle"
    /\ \E n \in 0..MaxSpeeds : \E speeds \in [1..n -> SpeedValues] :
          /\ op' = "speed_distribution"
          /\ args' = [speeds |-> speeds]
          /\ result' = speed_distribution(speeds)
    /\ UNCHANGED <<gmaps_clients, args2, result2>>

NextRoute ==
    \/ CalculateRouteStatistics \/ FindRouteBounds
    \/ AnalyzeSegments \/ SpeedDistribution
    \/ Return

SpecRoute == Init /\ [][NextRoute]_vars

----------------------------------------------------------------------------
(* Route analysis properties (SpecRoute)                                   *)

TypeError == Raise("TypeError")

(* the sum of f over the finite set S *)
RECURSIVE SetSum(_, _)
SetSum(f, S) ==
    IF S = {} THEN Zero
    ELSE LET x == CHOOSE y \in S : TRUE IN RAdd(f[x], SetSum(f, S \ {x}))

(* the positions i of the input-order pairs (w[i], w[i + 1]) *)
Pairs(w) == 1..(Len(w) - 1)

TimedPairs(w) ==
    {i \in Pairs(w) : w[i].timestamp # None /\ w[i + 1].timestamp # None}

(* some pair has one naive and one zone-aware timestamp *)
MixedPair(w) ==
    \E i \in TimedPairs(w) : IsAware(w[i].timestamp) # IsAware(w[i + 1].timestamp)

(* C14: calculate_route_statistics works on the consecutive pairs in input
   order: the total distance is the sum of all pair distances; the average
   speed is the arithmetic mean, and the maximum speed the maximum, of the
   speeds distance / hours of exactly the pairs whose timestamps are both
   present with t2 > t1; the three figures are 0 for fewer than 2 waypoints
   and the two speeds are 0 when no pair qualifies. *)
C14_RouteStatistics ==
    (op = "calculate_route_statistics" /\ result # TypeError) =>
    LET w == args.waypoints
        d == [i \in Pairs(w) |-> PointDistance(w[i], w[i + 1])]
        q == {i \in TimedPairs(w) :
                 Instant(w[i + 1].timestamp) > Instant(w[i].timestamp)}
        v == [i \in q |->
                 RDiv(d[i], R(Instant(w[i + 1].timestamp) - Instant(w[i].timestamp)))]
    IN  /\ result.total_distance_km = SetSum(d, Pairs(w))
        /\ result.average_speed_kmh =
              IF q = {} THEN Zero ELSE RDiv(SetSum(v, q), R(Cardinality(q)))
        /\ IF q = {} THEN result.max_speed_kmh = Zero
           ELSE /\ \E i \in q : result.max_speed_kmh = v[i]
                /\ \A i \in q : RLe(v[i], result.max_speed_kmh)
        /\ Len(w) < 2 =>
              result = [total_distance_km |-> Zero, max_speed_kmh |-> Zero,
                        average_speed_kmh |-> Zero]

C14_Witness ==
    /\ op = "calculate_route_statistics" /\ result # TypeError
    /\ Len(args.waypoints) = 3
    /\ TimedPairs(args.waypoints) = {1, 2}
    /\ Instant(args.waypoints[2].timestamp) < Instant(args.waypoints[1].timestamp)
    /\ RLt(Zero, result.average_speed_kmh)
    /\ RLt(result.average_speed_kmh, result.total_distance_km)

(* C15: for a non-empty list find_route_bounds returns northeast = (max
   latitude, max longitude), southwest = (min latitude, min longitude) and
   center = their midpoint, so every waypoint lies inside the box and a single
   waypoint is both corners and the center; for an empty list the three are
   null. *)
C15_RouteBounds ==
    op = "find_route_bounds" =>
    LET w == args.waypoints
        idx == 1..Len(w)
        IsMax(x, field) == /\ \E i \in idx : w[i][field] = x
                           /\ \A i \in idx : RLe(w[i][field], x)
        IsMin(x, field) == /\ \E i \in idx : w[i][field] = x
                           /\ \A i \in idx : RLe(x, w[i][field])
    IN  IF w = <<>>
        THEN result = [northeast |-> None, southwest |-> None, center |-> None]
        ELSE /\ IsMax(result.northeast.latitude, "latitude")
             /\ IsMax(result.northeast.longitude, "longitude")
             /\ IsMin(result.southwest.latitude, "latitude")
             /\ IsMin(result.southwest.longitude, "longitude")
             /\ RMul(R(2), result.center.latitude)
                   = RAdd(result.northeast.latitude, result.southwest.latitude)
             /\ RMul(R(2), result.center.longitude)
                   = RAdd(result.northeast.longitude, result.southwest.longitude)
             /\ \A i \in idx :
                   /\ RLe(result.southwest.latitude, w[i].latitude)
                   /\ RLe(w[i].latitude, result.northeast.latitude)
                   /\ RLe(result.southwest.longitude, w[i].longitude)
                   /\ RLe(w[i].longitude, result.northeast.longitude)
             /\ Len(w) = 1 =>
                   /\ result.northeast = Coordinate(w[1])
                   /\ result.southwest = Coordinate(w[1])
                   /\ result.center = Coordinate(w[1])

C15_Witness ==
    /\ op = "find_route_bounds" /\ Len(args.waypoints) >= 2
    /\ \A i \in 1..Len(args.waypoints) :
          /\ Coordinate(args.waypoints[i]) # result.northeast
          /\ Coordinate(args.waypoints[i]) # result.southwest
          /\ Coordinate(args.waypoints[i]) # result.center

(* C16: speed_distribution counts every speed in exactly one of the bins
   [0,20), [20,40), [40,60), [60,inf): 20 is counted in 20-40 and 60 in 60+,
   the four counts sum to the number of speeds, and [10, 25, 45, 65] gives
   one per bin. *)
C16_SpeedBins ==
    op = "speed_distribution" =>
    LET speeds == args.speeds
        Count(lo, hi) == Cardinality({i \in 1..Len(speeds) :
                              RLe(R(lo), speeds[i]) /\ RLt(speeds[i], R(hi))})
    IN  /\ DOMAIN result = {"0-20_kmh", "20-40_kmh", "40-60_kmh", "60+_kmh"}
        /\ result["0-20_kmh"] = Count(0, 20)
        /\ result["20-40_kmh"] = Count(20, 40)
        /\ result["40-60_kmh"] = Count(40, 60)
        /\ result["60+_kmh"] = Cardinality({i \in 1..Len(speeds) : RLe(R(60), speeds[i])})
        /\ result["0-20_kmh"] + result["20-40_kmh"] + result["40-60_kmh"]
              + result["60+_kmh"] = Len(speeds)
        /\ speeds = <<R(10), R(25), R(45), R(65)>> =>
              \A b \in DOMAIN result : result[b] = 1

C16_Witness ==
    /\ op = "speed_distribution"
    /\ args.speeds = <<R(20), R(60), R(40), R(10)>>
    /\ result["0-20_kmh"] = 1 /\ result["20-40_kmh"] = 1
    /\ result["40-60_kmh"] = 1 /\ result["60+_kmh"] = 1

(* C17: analyze_segments returns one entry per input-order pair, n - 1 for
   n >= 1 waypoints and none for an empty list; entry i describes the pair
   (waypoint i, waypoint i + 1); its duration in minutes is null exactly when
   a timestamp of the pair is missing, its speed is 0 whenever the duration is
   unknown, and its is_parking flag is that of the destination waypoint. *)
C17_Segments ==
    (op = "analyze_segments" /\ ~MixedPair(args.waypoints)) =>
    LET w == args.waypoints
    IN  /\ Len(result) = IF Len(w) = 0 THEN 0 ELSE Len(w) - 1
        /\ \A i \in 1..Len(result) :
              /\ result[i].segment_number = i
              /\ result[i].from_sequence = w[i].sequence
              /\ result[i].to_sequence = w[i + 1].sequence
              /\ result[i].distance_km = Round(PointDistance(w[i], w[i + 1]), 3)
              /\ (result[i].duration_minutes = None) <=> (i \notin TimedPairs(w))
              /\ result[i].duration_minutes = None => result[i].speed_kmh = Zero
              /\ result[i].is_parking = w[i + 1].is_parking

C17_Witness ==
    /\ op = "analyze_segments" /\ ~MixedPair(args.waypoints)
    /\ Len(args.waypoints) = 3 /\ Len(result) = 2
    /\ result[1].duration_minutes = None /\ result[2].duration_minutes # None
    /\ result[2].is_parking /\ ~args.waypoints[2].is_parking
    /\ RLt(Zero, result[2].speed_kmh)

----------------------------------------------------------------------------
(* State kept between calls (Spec) and errors of the handler (SpecAnchor)  *)

(* C18: position simulation keeps no state between calls: after any sequence
   of simulate_position calls, with or without an api key, the process-wide
   state is what it was before the first call. *)
C18_NoStateBetweenCalls == gmaps_clients = {}

Statuses == {"not_started", "moving", "parked", "completed", "inactive"}

(* C19: the calculate-position operation never raises: for every request that
   satisfies the PositionRequest schema it returns an envelope with
   success = true and a status among not_started, moving, parked, completed,
   inactive. *)
C19_NeverRaises ==
    op \in {"calculate_position", "calculate_position again"} =>
    /\ ~Raised(result)
    /\ result.success = TRUE
    /\ result.status \in Statuses

----------------------------------------------------------------------------
(* Segment location (SpecSegment)                                          *)

(* C20: over the waypoints sorted ascending by timestamp, the segment
   returned is the first adjacent pair (w[i], w[i+1]) with
   w[i].time <= query_time <= w[i+1].time, none if no pair brackets the
   query, with progress (query_time - w[i].time) / (w[i+1].time - w[i].time)
   clamped to [0,1] and 0 when the pair's duration is <= 0; a query halfway
   through the pair's interval is reported as segment_progress_percent 50.0. *)
C20_SegmentLocation ==
    /\ op = "_find_current_segment" =>
          LET s == SortedByTimestamp(args.waypoints)
              t == args.current_time
          IN  IF BracketingPairs(s, t) = {} THEN result = None
              ELSE LET i == FirstBracketingPair(s, t)
                   IN  /\ result # None
                       /\ result.idx = i - 1
                       /\ result.w1 = s[i] /\ result.w2 = s[i + 1]
                       /\ result.progress =
                             ClampedProgress(s[i].timestamp, s[i + 1].timestamp, t)
                       /\ RLe(Zero, result.progress) /\ RLe(result.progress, One)
    /\ LocatedCall =>
          LET t1 == FromIso(Segment(result).from_position.timestamp)
              t2 == FromIso(Segment(result).to_position.timestamp)
              t == args.current_time
          IN  (Instant(t1) < Instant(t2)
               /\ 2 * (Instant(t) - Instant(t1)) = Instant(t2) - Instant(t1))
              => Segment(result).segment_progress_percent = R(50)

C20_Witness ==
    /\ op = "_find_current_segment" /\ result # None
    /\ Cardinality(BracketingPairs(SortedByTimestamp(args.waypoints),
                                    args.current_time)) >= 2
    /\ Instant(args.waypoints[2].timestamp) < Instant(args.waypoints[1].timestamp)
    /\ result.idx = 0 /\ result.progress = One

----------------------------------------------------------------------------
(* _position_along_path on its own: polylines over three grid points and   *)
(* progress values in quarters, some outside [0, 1]                        *)

WalkPoints == {PtA, PtB, PtC}
ProgressValues == {Norm(k, 4) : k \in (0 - 2)..6}

PositionAlongPath ==
    /\ op = "idle"
    /\ \E n \in 0..MaxPathPts : \E path \in [1..n -> WalkPoints] :
       \E progress \in ProgressValues :
          /\ op' = "_position_along_path"
          /\ args' = [path |-> path, progress |-> progress]
          /\ result' = _position_along_path(path, progress)
    /\ UNCHANGED <<gmaps_clients, args2, result2>>

NextPath == PositionAlongPath \/ Return

SpecPath == Init /\ [][NextPath]_vars

(* the length of edge k of a polyline, from point k to point k + 1 *)
EdgeLength(path, k) == PointDistance(path[k], path[k + 1])

(* the length of the first k edges *)
RECURSIVE Cumulative(_, _)
Cumulative(path, k) ==
    IF k = 0 THEN Zero ELSE RAdd(Cumulative(path, k - 1), EdgeLength(path, k))

PathLength(path) == IF path = <<>> THEN Zero ELSE Cumulative(path, Len(path) - 1)

Clamp01(x) == IF RLt(x, Zero) THEN Zero ELSE IF RLt(One, x) THEN One ELSE x

(* C21: for a polyline of at least 2 points with positive total length,
   _position_along_path returns the total path length as segment distance,
   progress (clamped to [0,1]) * total length as distance traveled, and as
   position the point of the first edge of positive length at which the
   cumulative edge length meets or exceeds that target, linearly interpolated
   within the edge by the leftover ratio. *)
C21_PathWalk ==
    (/\ op = "_position_along_path"
     /\ Len(args.path) >= 2
     /\ RLt(Zero, PathLength(args.path))) =>
    LET path == args.path
        total == PathLength(path)
        target == RMul(Clamp01(args.progress), total)
        edges == {k \in 1..(Len(path) - 1) :
                     /\ RLt(Zero, EdgeLength(path, k))
                     /\ RLe(target, Cumulative(path, k))}
        k == CHOOSE e \in edges : \A f \in edges : e <= f
        ratio == RDiv(RSub(target, Cumulative(path, k - 1)), EdgeLength(path, k))
    IN  /\ result.distance_km = total
        /\ result.distance_completed_km = target
        /\ RLe(Zero, ratio) /\ RLe(ratio, One)
        /\ result.pos =
              [latitude |-> RAdd(path[k].latitude,
                                 RMul(RSub(path[k + 1].latitude, path[k].latitude), ratio)),
               longitude |-> RAdd(path[k].longitude,
                                  RMul(RSub(path[k + 1].longitude, path[k].longitude), ratio))]

C21_Witness ==
    /\ op = "_position_along_path"
    /\ Len(args.path) = 3
    /\ EdgeLength(args.path, 1) = Zero
    /\ RLt(Zero, EdgeLength(args.path, 2))
    /\ args.progress = Norm(1, 4)
    /\ result.pos \notin {args.path[i] : i \in 1..3}
    /\ result.distance_completed_km = RMul(Norm(1, 4), result.distance_km)

(* C22: for a non-empty path whose total length is 0, _position_along_path
   returns the path's first point with 0 distance traveled, for every
   progress value. *)
C22_DegeneratePath ==
    (/\ op = "_position_along_path"
     /\ args.path # <<>>
     /\ PathLength(args.path) = Zero) =>
    /\ result.pos = args.path[1]
    /\ result.distance_completed_km = Zero

C22_Witness ==
    /\ op = "_position_along_path"
    /\ Len(args.path) >= 2
    /\ PathLength(args.path) = Zero
    /\ args.path[1] # Pt(0, 0)
    /\ args.progress = One
    /\ result.pos = args.path[1]

----------------------------------------------------------------------------
(* Reachability of the fallback, progress over time, ETA, input order      *)

(* C23: with at least 2 timestamped waypoints and a query time between the
   earliest and the latest timestamp inclusive, simulate_position finds a
   bracketing pair and answers moving or parked; it answers inactive with the
   first waypoint's position only when exactly one waypoint has a timestamp
   and the query time equals it. *)
C23_FallbackOnlyForSingleWaypoint ==
    (Simulated /\ WellTimed(args.waypoints, args.current_time)) =>
    LET w == args.waypoints
        T == TimestampedIdx(w)
        t == Instant(args.current_time)
    IN  /\ (/\ Cardinality(T) >= 2
            /\ \E i \in T : Instant(w[i].timestamp) <= t
            /\ \E i \in T : t <= Instant(w[i].timestamp))
           => result.status \in {"moving", "parked"}
        /\ (result.status = "inactive" /\ "position" \in DOMAIN result)
           => /\ Cardinality(T) = 1
              /\ \A i \in T : /\ Instant(w[i].timestamp) = t
                               /\ result.position = Coordinate(w[i])

C23_Witness ==
    /\ Simulated /\ ~Raised(result)
    /\ result.status = "inactive" /\ "position" \in DOMAIN result
    /\ Len(args.waypoints) >= 2

(* C24: for a fixed waypoint list, overall_progress_percent of a located
   result lies in [0, 100] and does not decrease when the query time
   advances, across segment boundaries and duplicate timestamps included, and
   completed_waypoints + remaining_waypoints equals total_waypoints. *)
C24_ProgressMonotone ==
    /\ LocatedCall =>
          LET rp == result.route_progress
          IN  /\ RLe(Zero, rp.overall_progress_percent)
              /\ RLe(rp.overall_progress_percent, R(100))
              /\ rp.completed_waypoints + rp.remaining_waypoints = rp.total_waypoints
    /\ (op = "simulate_position later" /\ Located(result) /\ Located(result2)) =>
          /\ RLe(result.route_progress.overall_progress_percent,
                 result2.route_progress.overall_progress_percent)
          /\ result2.route_progress.completed_waypoints
                + result2.route_progress.remaining_waypoints
                = result2.route_progress.total_waypoints

C24_Witness ==
    /\ op = "simulate_position later" /\ Located(result) /\ Located(result2)
    /\ \E i, j \in 1..Len(args.waypoints) :
          i # j /\ args.waypoints[i].timestamp = args.waypoints[j].timestamp
    /\ result.route_progress.completed_waypoints
          < result2.route_progress.completed_waypoints
    /\ RLt(result.route_progress.overall_progress_percent,
           result2.route_progress.overall_progress_percent)

(* C25: in every moving or parked result the ETA figures are non-negative
   and ordered: 0 <= minutes_to_next_waypoint <= minutes_to_destination. *)
C25_EtaOrdered ==
    LocatedCall =>
    /\ RLe(Zero, result.eta.minutes_to_next_waypoint)
    /\ RLe(result.eta.minutes_to_next_waypoint, result.eta.minutes_to_destination)
    /\ RLe(Zero, result.eta.seconds_to_next_waypoint)

C25_Witness ==
    /\ LocatedCall
    /\ RLt(Zero, result.eta.minutes_to_next_waypoint)
    /\ RLt(result.eta.minutes_to_next_waypoint, result.eta.minutes_to_destination)

DistinctTimestamps(w) ==
    \A i, j \in 1..Len(w) : i # j => w[i].timestamp # w[j].timestamp

(* C26: without an api key simulate_position does not depend on the input
   order of waypoints whose timestamps are pairwise distinct: every
   permutation of the list gives the same result for the same query time. *)
C26_OrderIndependent ==
    (op = "simulate_position permuted" /\ DistinctTimestamps(args.waypoints))
    => result2 = result

C26_Witness ==
    /\ op = "simulate_position permuted" /\ DistinctTimestamps(args.waypoints)
    /\ Len(args.waypoints) = 3
    /\ Located(result) /\ result2 = result
    /\ result.route_progress.completed_waypoints = 1

(* with equal timestamps the input order decides which pair is reported *)
C26_TiesFollowInputOrder ==
    /\ op = "simulate_position permuted" /\ ~DistinctTimestamps(args.waypoints)
    /\ Located(result) /\ Located(result2)
    /\ Segment(result).from_waypoint_sequence # Segment(result2).from_waypoint_sequence

====
